---- MODULE Spec2Model ----
(***************************************************************************)
(* Multilogin Window Manager (src/mlm_window_manager.py).                  *)
(*                                                                         *)
(* The program is a Tk application: one UI thread that runs the event      *)
(* handlers of MultiloginWindowManager, and one daemon thread that runs    *)
(* auto_refresh.  The operating system's window list is the environment.   *)
(*                                                                         *)
(* Strings are sequences of one-character strings, so that `in`, split,    *)
(* lower and int() are computed and not assumed.  Python indices are kept  *)
(* 0-based (selected_index, the keys of checkbox_vars); a TLA+ sequence    *)
(* holds the item of Python index i at position i + 1.                     *)
(***************************************************************************)
EXTENDS Integers, Sequences, FiniteSets, TLC

VARIABLES
    oswin,            \* the OS's top-level windows, in EnumWindows order
    profiles,         \* self.profiles
    checkbox_vars,    \* self.checkbox_vars: the BooleanVar of row i at i + 1
    selected_index,   \* self.selected_index (NoneIndex for None)
    hotkeys_var,      \* self.hotkeys_var
    refresh_interval, \* text of the self.refresh_interval Spinbox
    running,          \* self.running
    destroyed,        \* self.root.destroy() has been called
    afterQueue,       \* callbacks pending from root.after: their delays
    dialog,           \* the handler suspended in a modal messagebox, if any
    tpc,              \* position of the auto_refresh thread
    interval,         \* auto_refresh's local variable interval
    lastCall          \* history: the step taken last and what it issued

vars == <<oswin, profiles, checkbox_vars, selected_index, hotkeys_var,
          refresh_interval, running, destroyed, afterQueue, dialog, tpc,
          interval, lastCall>>

(***************************************************************************)
(* Bounds of the model.                                                    *)
(***************************************************************************)
MaxWindows == 2
MaxEnumWindows == 2
MaxThreadWindows == 1
MaxPending == 2

(***************************************************************************)
(* Program constants.                                                      *)
(***************************************************************************)
SW_MINIMIZE == 6
SW_RESTORE == 9
WM_CLOSE == 16
NoneIndex == -1
DefaultInterval == 3
CloseRefreshDelay == 1000

(***************************************************************************)
(* Strings.                                                                *)
(***************************************************************************)
UpperAlpha == <<"A","B","C","D","E","F","G","H","I","J","K","L","M",
                "N","O","P","Q","R","S","T","U","V","W","X","Y","Z">>
LowerAlpha == <<"a","b","c","d","e","f","g","h","i","j","k","l","m",
                "n","o","p","q","r","s","t","u","v","w","x","y","z">>

LowerChar(c) ==
    IF \E i \in 1..Len(UpperAlpha) : UpperAlpha[i] = c
    THEN LowerAlpha[CHOOSE i \in 1..Len(UpperAlpha) : UpperAlpha[i] = c]
    ELSE c

\* str.lower()
Lower(s) == [i \in 1..Len(s) |-> LowerChar(s[i])]

\* sub in s
Contains(sub, s) ==
    \E i \in 0..(Len(s) - Len(sub)) : SubSeq(s, i + 1, i + Len(sub)) = sub

\* s.split(sep)[-1] for a one-character separator
RECURSIVE SplitLast(_, _)
SplitLast(s, sep) ==
    IF s = <<>> THEN <<>>
    ELSE IF s[Len(s)] = sep THEN <<>>
    ELSE Append(SplitLast(SubSeq(s, 1, Len(s) - 1), sep), s[Len(s)])

Digits == <<"0","1","2","3","4","5","6","7","8","9">>
IsDigit(c) == \E i \in 1..Len(Digits) : Digits[i] = c
DigitValue(c) == (CHOOSE i \in 1..Len(Digits) : Digits[i] = c) - 1

RECURSIVE DecimalValue(_)
DecimalValue(s) ==
    IF s = <<>> THEN 0
    ELSE 10 * DecimalValue(SubSeq(s, 1, Len(s) - 1)) + DigitValue(s[Len(s)])

AllDigits(s) == s # <<>> /\ \A i \in 1..Len(s) : IsDigit(s[i])

\* int(text): [ok |-> TRUE, value |-> n], or ok = FALSE where int() raises
\* ValueError.  Signs and decimal digits; the texts drawn hold no blanks or
\* underscores.
ParseInt(s) ==
    IF s # <<>> /\ s[1] \in {"-", "+"}
    THEN IF AllDigits(Tail(s))
         THEN [ok |-> TRUE,
               value |-> IF s[1] = "-" THEN 0 - DecimalValue(Tail(s))
                         ELSE DecimalValue(Tail(s))]
         ELSE [ok |-> FALSE, value |-> 0]
    ELSE IF AllDigits(s) THEN [ok |-> TRUE, value |-> DecimalValue(s)]
         ELSE [ok |-> FALSE, value |-> 0]

(***************************************************************************)
(* The environment: window titles, processes, spinbox texts.               *)
(***************************************************************************)
TitleDC1 == <<"D","C","1">>
TitleInbox == <<"I","n","b","o","x">>
TitleLower == <<"d","c","1">>
TitleEmpty == <<>>

\* What OpenProcess and GetModuleFileNameExW give for each process id:
\*   1  C:\Mimic.EXE          the mimic browser
\*   2  C:\Mimic\Chrome.exe   a chrome binary in a directory named Mimic
\*   3  OpenProcess returns NULL (access denied)
\*   4  the query raises inside the try block
\*   5  C:\explorer.exe       another program
ProcessTable ==
    <<[open |-> "ok",
       path |-> <<"C",":","\\","M","i","m","i","c",".","E","X","E">>],
      [open |-> "ok",
       path |-> <<"C",":","\\","M","i","m","i","c","\\",
                  "C","h","r","o","m","e",".","e","x","e">>],
      [open |-> "null", path |-> <<>>],
      [open |-> "raise", path |-> <<>>],
      [open |-> "ok",
       path |-> <<"C",":","\\","e","x","p","l","o","r","e","r",".","e","x","e">>]>>

Pids == 1..Len(ProcessTable)

IntervalTexts == {<<"3">>, <<"1","0">>, <<"a","b","c">>, <<"-","1">>}

(***************************************************************************)
(* get_multilogin_windows                                                  *)
(***************************************************************************)
indicators == <<<<"-","-","p","r","o","x","y">>, <<"D","C">>,
                <<"P","r","o","f","i","l","e">>, <<"M","i","m","i","c">>>>

\* all(...) where the code has any(...).
is_multilogin_profile_all(title) ==
    \A k \in 1..Len(indicators) : Contains(indicators[k], title)

is_multilogin_profile(title) ==
    \E k \in 1..Len(indicators) : Contains(indicators[k], title)

\* exe_path.value.split("\\")[-1].lower()
ExeName(path) == Lower(SplitLast(path, "\\"))

\* the condition of line 277
IsMultiloginExe(exe_name, title) ==
    \/ Contains(<<"m","i","m","i","c">>, exe_name)
    \/ /\ Contains(<<"c","h","r","o","m","e">>, exe_name)
       /\ is_multilogin_profile(title)

\* The record appended for a window (the derived labels profile and tab are
\* display text computed from title alone and are left out).
WindowRecord(w) == [hwnd |-> w.hwnd, title |-> w.title, pid |-> w.pid]

\* enum_callback(hwnd, _): the list windows after the callback has run.
enum_callback(w, windows) ==
    IF w.visible
    THEN IF Len(w.title) > 0
         THEN LET proc == ProcessTable[w.pid] IN
              IF proc.open = "raise" THEN windows          \* except: pass
              ELSE IF proc.open = "ok"                     \* if handle:
                   THEN IF IsMultiloginExe(ExeName(proc.path), w.title)
                        THEN Append(windows, WindowRecord(w))
                        ELSE windows
                   ELSE windows
         ELSE windows
    ELSE windows

\* A callback whose "return True" sits inside "if handle:".
enum_callback_result_in_branch(w) ==
    w.visible /\ Len(w.title) > 0 /\ ProcessTable[w.pid].open = "ok"

\* What enum_callback returns to EnumWindows: True on every path (line 291).
enum_callback_result(w) == TRUE

\* user32.EnumWindows: visits the windows in Z order and stops when the
\* callback returns False.
RECURSIVE EnumWindows(_, _)
EnumWindows(ws, windows) ==
    IF ws = <<>> THEN windows
    ELSE IF enum_callback_result(Head(ws))
         THEN EnumWindows(Tail(ws), enum_callback(Head(ws), windows))
         ELSE enum_callback(Head(ws), windows)

\* A list that is not emptied before the enumeration.
get_multilogin_windows_accumulating == EnumWindows(oswin, profiles)

get_multilogin_windows == EnumWindows(oswin, <<>>)

(***************************************************************************)
(* refresh_profiles                                                        *)
(***************************************************************************)
EmptyDict == [t \in {} |-> FALSE]

\* old_states after the loop of lines 338-341 has visited rows 0 .. n - 1.
RECURSIVE SaveStates(_)
SaveStates(n) ==
    IF n = 0 THEN EmptyDict
    ELSE LET prev == SaveStates(n - 1)
             i == n - 1
         IN IF i < Len(profiles)
            THEN [t \in DOMAIN prev \cup {profiles[i + 1].title} |->
                     IF t = profiles[i + 1].title THEN checkbox_vars[i + 1]
                     ELSE prev[t]]
            ELSE prev

\* old_states.get(title, False)
DictGet(d, key, default) == IF key \in DOMAIN d THEN d[key] ELSE default

RestoredVars(old_states, new_profiles) ==
    [i \in 1..Len(new_profiles) |->
        DictGet(old_states, new_profiles[i].title, FALSE)]

\* The body of refresh_profiles, run on the UI thread.
RefreshBody ==
    LET old_states == SaveStates(Len(checkbox_vars))
        new_profiles == get_multilogin_windows
    IN /\ profiles' = new_profiles
       /\ checkbox_vars' = RestoredVars(old_states, new_profiles)

NoDialog == [handler |-> "none", checked |-> <<>>]

Call(name, via, thread, ops, answer, sched, status) ==
    [name |-> name, via |-> via, thread |-> thread, ops |-> ops,
     answer |-> answer, sched |-> sched, status |-> status]

UiIdle == ~destroyed /\ dialog = NoDialog

\* The Refresh button.
refresh_profiles ==
    /\ UiIdle
    /\ RefreshBody
    /\ lastCall' = Call("refresh_profiles", "button", "ui", <<>>, "none",
                        FALSE, <<"Found", Len(profiles')>>)
    /\ UNCHANGED <<oswin, selected_index, hotkeys_var, refresh_interval,
                   running, destroyed, afterQueue, dialog, tpc, interval>>

(***************************************************************************)
(* The environment's steps.                                                *)
(***************************************************************************)
OsCall(name) == Call(name, "os", "os", <<>>, "none", FALSE, <<"", 0>>)

Hwnds(ws) == {ws[i].hwnd : i \in 1..Len(ws)}

\* A new top-level window appears at the top of the Z order.
CreateWindow(h, title, pid, visible) ==
    /\ h \notin Hwnds(oswin)
    /\ oswin' = <<[hwnd |-> h, title |-> title, pid |-> pid,
                   visible |-> visible]>> \o oswin
    /\ lastCall' = OsCall("CreateWindow")
    /\ UNCHANGED <<profiles, checkbox_vars, selected_index, hotkeys_var,
                   refresh_interval, running, destroyed, afterQueue, dialog,
                   tpc, interval>>

DestroyWindow(k) ==
    /\ k \in 1..Len(oswin)
    /\ oswin' = SubSeq(oswin, 1, k - 1) \o SubSeq(oswin, k + 1, Len(oswin))
    /\ lastCall' = OsCall("DestroyWindow")
    /\ UNCHANGED <<profiles, checkbox_vars, selected_index, hotkeys_var,
                   refresh_interval, running, destroyed, afterQueue, dialog,
                   tpc, interval>>

\* A window is brought to the top of the Z order.
RaiseWindow(k) ==
    /\ k \in 2..Len(oswin)
    /\ oswin' = <<oswin[k]>> \o SubSeq(oswin, 1, k - 1)
                   \o SubSeq(oswin, k + 1, Len(oswin))
    /\ lastCall' = OsCall("RaiseWindow")
    /\ UNCHANGED <<profiles, checkbox_vars, selected_index, hotkeys_var,
                   refresh_interval, running, destroyed, afterQueue, dialog,
                   tpc, interval>>

(***************************************************************************)
(* OS calls issued by the handlers, as recorded in lastCall.ops.           *)
(***************************************************************************)
ShowWindow(hwnd, cmd) == <<"ShowWindow", hwnd, cmd>>
SetForegroundWindow(hwnd) == <<"SetForegroundWindow", hwnd, 0>>
PostMessageW(hwnd, msg) == <<"PostMessageW", hwnd, msg>>
send_url_to_window(hwnd) == <<"send_url_to_window", hwnd, 0>>

NoStatus == <<"", 0>>

\* A handler that leaves everything but the checkboxes, the selected row
\* and the hotkeys flag alone.
UiFrame ==
    UNCHANGED <<oswin, profiles, refresh_interval, running, destroyed,
                afterQueue, dialog, tpc, interval>>

(***************************************************************************)
(* Selection.                                                              *)
(***************************************************************************)
\* A list that holds every row, whatever its checkbox says.
get_checked_profiles_ignoring_var == profiles

\* get_checked_profiles: the loop of lines 405-407 over rows 0 .. n - 1.
RECURSIVE CheckedUpTo(_)
CheckedUpTo(n) ==
    IF n = 0 THEN <<>>
    ELSE LET i == n - 1 IN
         IF checkbox_vars[i + 1] /\ i < Len(profiles)
         THEN Append(CheckedUpTo(n - 1), profiles[i + 1])
         ELSE CheckedUpTo(n - 1)

get_checked_profiles == CheckedUpTo(Len(checkbox_vars))

\* A click on a row's Checkbutton toggles its BooleanVar.
checkbutton_click(index) ==
    /\ UiIdle
    /\ index \in 0..(Len(checkbox_vars) - 1)
    /\ checkbox_vars' = [checkbox_vars EXCEPT ![index + 1] = ~@]
    /\ lastCall' = Call("checkbutton_click", "mouse", "ui", <<>>, "none",
                        FALSE, NoStatus)
    /\ UNCHANGED <<selected_index, hotkeys_var>>
    /\ UiFrame

\* A click on a row's labels: the rows are those of the last refresh.
on_profile_click(index) ==
    /\ UiIdle
    /\ index \in 0..(Len(profiles) - 1)
    /\ checkbox_vars' = IF index + 1 \in DOMAIN checkbox_vars
                        THEN [checkbox_vars EXCEPT ![index + 1] = ~@]
                        ELSE checkbox_vars
    /\ selected_index' = index
    /\ lastCall' = Call("on_profile_click", "mouse", "ui", <<>>, "none",
                        FALSE, NoStatus)
    /\ UNCHANGED hotkeys_var
    /\ UiFrame

select_all ==
    /\ UiIdle
    /\ checkbox_vars' = [i \in DOMAIN checkbox_vars |-> TRUE]
    /\ lastCall' = Call("select_all", "button", "ui", <<>>, "none", FALSE,
                        <<"Selected all", Len(profiles)>>)
    /\ UNCHANGED <<selected_index, hotkeys_var>>
    /\ UiFrame

deselect_all ==
    /\ UiIdle
    /\ checkbox_vars' = [i \in DOMAIN checkbox_vars |-> FALSE]
    /\ lastCall' = Call("deselect_all", "button", "ui", <<>>, "none", FALSE,
                        <<"Deselected all profiles", 0>>)
    /\ UNCHANGED <<selected_index, hotkeys_var>>
    /\ UiFrame

invert_selection ==
    /\ UiIdle
    /\ checkbox_vars' = [i \in DOMAIN checkbox_vars |-> ~checkbox_vars[i]]
    /\ lastCall' = Call("invert_selection", "button", "ui", <<>>, "none",
                        FALSE,
                        <<"Inverted selection",
                          Cardinality({i \in DOMAIN checkbox_vars :
                                          ~checkbox_vars[i]
                                          /\ i - 1 < Len(profiles)})>>)
    /\ UNCHANGED <<selected_index, hotkeys_var>>
    /\ UiFrame

(***************************************************************************)
(* Show / Minimize / Close Selected.                                       *)
(***************************************************************************)
RECURSIVE ShowOps(_)
ShowOps(ps) ==
    IF ps = <<>> THEN <<>>
    ELSE <<ShowWindow(Head(ps).hwnd, SW_RESTORE),
           SetForegroundWindow(Head(ps).hwnd)>> \o ShowOps(Tail(ps))

RestoreOps(ps) == [i \in 1..Len(ps) |-> ShowWindow(ps[i].hwnd, SW_RESTORE)]
MinimizeOps(ps) == [i \in 1..Len(ps) |-> ShowWindow(ps[i].hwnd, SW_MINIMIZE)]
CloseOps(ps) == [i \in 1..Len(ps) |-> PostMessageW(ps[i].hwnd, WM_CLOSE)]

show_checked ==
    /\ UiIdle
    /\ LET checked == get_checked_profiles IN
       lastCall' =
          IF checked = <<>>
          THEN Call("show_checked", "button", "ui", <<>>, "none", FALSE,
                    <<"No profiles selected", 0>>)
          ELSE Call("show_checked", "button", "ui", ShowOps(checked), "none",
                    FALSE, <<"Showing selected", Len(checked)>>)
    /\ UNCHANGED <<checkbox_vars, selected_index, hotkeys_var>>
    /\ UiFrame

minimize_checked ==
    /\ UiIdle
    /\ LET checked == get_checked_profiles IN
       lastCall' =
          IF checked = <<>>
          THEN Call("minimize_checked", "button", "ui", <<>>, "none", FALSE,
                    <<"No profiles selected", 0>>)
          ELSE Call("minimize_checked", "button", "ui", MinimizeOps(checked),
                    "none", FALSE, <<"Minimized selected", Len(checked)>>)
    /\ UNCHANGED <<checkbox_vars, selected_index, hotkeys_var>>
    /\ UiFrame

\* Slots of afterQueue that an open confirmation dialog may still fill.
Reserved == IF dialog.handler \in {"close_checked", "close_all"} THEN 1 ELSE 0

\* close_checked up to its call of messagebox.askyesno (lines 453-457).
close_checked ==
    /\ UiIdle
    /\ Len(afterQueue) < MaxPending
    /\ LET checked == get_checked_profiles IN
       IF checked = <<>>
       THEN /\ lastCall' = Call("close_checked", "button", "ui", <<>>,
                                "none", FALSE, <<"No profiles selected", 0>>)
            /\ dialog' = dialog
       ELSE /\ lastCall' = Call("close_checked", "button", "ui", <<>>,
                                "asked", FALSE, NoStatus)
            /\ dialog' = [handler |-> "close_checked", checked |-> checked]
    /\ UNCHANGED <<oswin, profiles, checkbox_vars, selected_index,
                   hotkeys_var, refresh_interval, running, destroyed,
                   afterQueue, tpc, interval>>

\* Close requests posted whatever the dialog's answer.
UnconfirmedCloseOps(answer, targets) == CloseOps(targets)

\* "if messagebox.askyesno(...): for profile in ...: PostMessageW(...)"
ConfirmedCloseOps(answer, targets) ==
    IF answer THEN CloseOps(targets) ELSE <<>>

\* askyesno returns: the rest of close_checked (lines 457-461).
close_checked_answer(answer) ==
    /\ ~destroyed
    /\ dialog.handler = "close_checked"
    /\ dialog' = NoDialog
    /\ lastCall' = Call("close_checked", "dialog", "ui",
                        ConfirmedCloseOps(answer, dialog.checked),
                        IF answer THEN "yes" ELSE "no", answer,
                        IF answer THEN <<"Closing", Len(dialog.checked)>>
                        ELSE NoStatus)
    /\ afterQueue' = IF answer THEN Append(afterQueue, CloseRefreshDelay)
                     ELSE afterQueue
    /\ UNCHANGED <<oswin, profiles, checkbox_vars, selected_index,
                   hotkeys_var, refresh_interval, running, destroyed, tpc,
                   interval>>

(***************************************************************************)
(* Show All / Minimize All / Close All.                                    *)
(***************************************************************************)
show_all ==
    /\ UiIdle
    /\ lastCall' = Call("show_all", "button", "ui", RestoreOps(profiles),
                        "none", FALSE, <<"Showing all", Len(profiles)>>)
    /\ UNCHANGED <<checkbox_vars, selected_index, hotkeys_var>>
    /\ UiFrame

minimize_all ==
    /\ UiIdle
    /\ lastCall' = Call("minimize_all", "button", "ui", MinimizeOps(profiles),
                        "none", FALSE, <<"Minimized all", Len(profiles)>>)
    /\ UNCHANGED <<checkbox_vars, selected_index, hotkeys_var>>
    /\ UiFrame

\* close_all up to its call of messagebox.askyesno (line 477).
close_all ==
    /\ UiIdle
    /\ Len(afterQueue) < MaxPending
    /\ IF profiles = <<>>
       THEN /\ lastCall' = Call("close_all", "button", "ui", <<>>, "none",
                                FALSE, NoStatus)
            /\ dialog' = dialog
       ELSE /\ lastCall' = Call("close_all", "button", "ui", <<>>, "asked",
                                FALSE, NoStatus)
            /\ dialog' = [handler |-> "close_all", checked |-> <<>>]
    /\ UNCHANGED <<oswin, profiles, checkbox_vars, selected_index,
                   hotkeys_var, refresh_interval, running, destroyed,
                   afterQueue, tpc, interval>>

\* askyesno returns: the rest of close_all (lines 477-481), which reads
\* self.profiles as it is now.
close_all_answer(answer) ==
    /\ ~destroyed
    /\ dialog.handler = "close_all"
    /\ dialog' = NoDialog
    /\ lastCall' = Call("close_all", "dialog", "ui",
                        ConfirmedCloseOps(answer, profiles),
                        IF answer THEN "yes" ELSE "no", answer,
                        IF answer THEN <<"Closing all profiles", 0>>
                        ELSE NoStatus)
    /\ afterQueue' = IF answer THEN Append(afterQueue, CloseRefreshDelay)
                     ELSE afterQueue
    /\ UNCHANGED <<oswin, profiles, checkbox_vars, selected_index,
                   hotkeys_var, refresh_interval, running, destroyed, tpc,
                   interval>>

(***************************************************************************)
(* Open URL.                                                               *)
(***************************************************************************)
UrlScheme == <<"h","t","t","p","s",":","/","/">>
Urls == {<<>>, UrlScheme, <<"a",".","b">>}

RECURSIVE OpenUrlOps(_)
OpenUrlOps(ps) ==
    IF ps = <<>> THEN <<>>
    ELSE <<ShowWindow(Head(ps).hwnd, SW_RESTORE),
           SetForegroundWindow(Head(ps).hwnd),
           send_url_to_window(Head(ps).hwnd)>> \o OpenUrlOps(Tail(ps))

\* open_url_checked up to the dialog it may open (lines 485-499), or to its
\* end when it opens none.  url is the stripped text of the entry.
open_url_checked(url) ==
    /\ UiIdle
    /\ LET checked == get_checked_profiles IN
       IF url = <<>> \/ url = UrlScheme
       THEN /\ dialog' = [handler |-> "showwarning", checked |-> <<>>]
            /\ lastCall' = Call("open_url_checked", "button", "ui", <<>>,
                                "warned", FALSE, NoStatus)
       ELSE IF checked = <<>>
       THEN /\ dialog' = [handler |-> "open_url_checked", checked |-> <<>>]
            /\ lastCall' = Call("open_url_checked", "button", "ui", <<>>,
                                "asked", FALSE, NoStatus)
       ELSE /\ dialog' = dialog
            /\ lastCall' = Call("open_url_checked", "button", "ui",
                                OpenUrlOps(checked), "none", FALSE,
                                <<"Opened URL", Len(checked)>>)
    /\ UNCHANGED <<oswin, profiles, checkbox_vars, selected_index,
                   hotkeys_var, refresh_interval, running, destroyed,
                   afterQueue, tpc, interval>>

\* The warning is dismissed and the handler returns (lines 487-488).
showwarning_answer ==
    /\ ~destroyed
    /\ dialog.handler = "showwarning"
    /\ dialog' = NoDialog
    /\ lastCall' = Call("open_url_checked", "dialog", "ui", <<>>, "ok",
                        FALSE, NoStatus)
    /\ UNCHANGED <<oswin, profiles, checkbox_vars, selected_index,
                   hotkeys_var, refresh_interval, running, destroyed,
                   afterQueue, tpc, interval>>

\* askyesno returns: "Apply to ALL profiles?" (lines 496-511).
open_url_answer(answer) ==
    /\ ~destroyed
    /\ dialog.handler = "open_url_checked"
    /\ dialog' = NoDialog
    /\ lastCall' = IF answer
                   THEN Call("open_url_checked", "dialog", "ui",
                             OpenUrlOps(profiles), "yes", FALSE,
                             <<"Opened URL", Len(profiles)>>)
                   ELSE Call("open_url_checked", "dialog", "ui", <<>>, "no",
                             FALSE, NoStatus)
    /\ UNCHANGED <<oswin, profiles, checkbox_vars, selected_index,
                   hotkeys_var, refresh_interval, running, destroyed,
                   afterQueue, tpc, interval>>

(***************************************************************************)
(* Callbacks scheduled with root.after.                                    *)
(***************************************************************************)
\* The event loop runs a pending refresh_profiles.  A modal messagebox runs
\* the event loop too, so this step is not held back by an open dialog.
after_callback(k) ==
    /\ ~destroyed
    /\ k \in 1..Len(afterQueue)
    /\ afterQueue' = SubSeq(afterQueue, 1, k - 1)
                        \o SubSeq(afterQueue, k + 1, Len(afterQueue))
    /\ RefreshBody
    /\ lastCall' = Call("refresh_profiles", "after", "ui", <<>>, "none",
                        FALSE, <<"Found", Len(profiles')>>)
    /\ UNCHANGED <<oswin, selected_index, hotkeys_var, refresh_interval,
                   running, destroyed, dialog, tpc, interval>>

(***************************************************************************)
(* Navigation and hotkeys.  via is "button", "hotkey" or "mouse": the      *)
(* bindings of setup_hotkeys call the same methods as the buttons.         *)
(***************************************************************************)
\* The OS calls of show_profile(index) (lines 384-388).
ShowProfileOps(index) ==
    IF index < Len(profiles)
    THEN <<ShowWindow(profiles[index + 1].hwnd, SW_RESTORE),
           SetForegroundWindow(profiles[index + 1].hwnd)>>
    ELSE <<>>

ShowProfileStatus(index) ==
    IF index < Len(profiles) THEN <<"Showing", index>> ELSE NoStatus

\* A double click on a row's labels.
show_profile(index) ==
    /\ UiIdle
    /\ index \in 0..(Len(profiles) - 1)
    /\ lastCall' = Call("show_profile", "mouse", "ui", ShowProfileOps(index),
                        "none", FALSE, ShowProfileStatus(index))
    /\ UNCHANGED <<checkbox_vars, selected_index, hotkeys_var>>
    /\ UiFrame

\* nav_prev (step = -1) and nav_next (step = 1).
Navigate(name, via, step) ==
    /\ UiIdle
    /\ IF profiles = <<>>
       THEN /\ selected_index' = selected_index
            /\ lastCall' = Call(name, via, "ui", <<>>, "none", FALSE, NoStatus)
       ELSE /\ selected_index' =
                  IF selected_index = NoneIndex THEN 0
                  ELSE (selected_index + step) % Len(profiles)
            /\ lastCall' = Call(name, via, "ui",
                                ShowProfileOps(selected_index'), "none",
                                FALSE, ShowProfileStatus(selected_index'))
    /\ UNCHANGED <<checkbox_vars, hotkeys_var>>
    /\ UiFrame

nav_prev(via) == Navigate("nav_prev", via, -1)

nav_next(via) == Navigate("nav_next", via, 1)

nav_top ==
    /\ UiIdle
    /\ IF profiles = <<>>
       THEN /\ selected_index' = selected_index
            /\ lastCall' = Call("nav_top", "button", "ui", <<>>, "none",
                                FALSE, NoStatus)
       ELSE /\ selected_index' = 0
            /\ lastCall' = Call("nav_top", "button", "ui", ShowProfileOps(0),
                                "none", FALSE, ShowProfileStatus(0))
    /\ UNCHANGED <<checkbox_vars, hotkeys_var>>
    /\ UiFrame

\* Ctrl+Shift+Up.
show_current ==
    /\ UiIdle
    /\ lastCall' =
          IF selected_index # NoneIndex /\ selected_index < Len(profiles)
          THEN Call("show_current", "hotkey", "ui",
                    ShowProfileOps(selected_index), "none", FALSE,
                    ShowProfileStatus(selected_index))
          ELSE Call("show_current", "hotkey", "ui", <<>>, "none", FALSE,
                    NoStatus)
    /\ UNCHANGED <<checkbox_vars, selected_index, hotkeys_var>>
    /\ UiFrame

\* Ctrl+Shift+H ("hotkey"), or a click on the Hotkeys checkbox ("mouse"),
\* whose variable is self.hotkeys_var.
toggle_hotkeys(via) ==
    /\ UiIdle
    /\ hotkeys_var' = ~hotkeys_var
    /\ lastCall' = Call("toggle_hotkeys", via, "ui", <<>>, "none", FALSE,
                        NoStatus)
    /\ UNCHANGED <<checkbox_vars, selected_index>>
    /\ UiFrame

(***************************************************************************)
(* The Settings tab and shutdown.                                          *)
(***************************************************************************)
\* The user types into the Refresh Interval spinbox, which validates nothing.
set_refresh_interval(text) ==
    /\ UiIdle
    /\ text # refresh_interval
    /\ refresh_interval' = text
    /\ lastCall' = Call("set_refresh_interval", "keyboard", "ui", <<>>,
                        "none", FALSE, NoStatus)
    /\ UNCHANGED <<oswin, profiles, checkbox_vars, selected_index,
                   hotkeys_var, running, destroyed, afterQueue, dialog, tpc,
                   interval>>

\* WM_DELETE_WINDOW.  Destroying the root drops the pending callbacks.
on_close ==
    /\ UiIdle
    /\ running' = FALSE
    /\ destroyed' = TRUE
    /\ afterQueue' = <<>>
    /\ lastCall' = Call("on_close", "button", "ui", <<>>, "none", FALSE,
                        NoStatus)
    /\ UNCHANGED <<oswin, profiles, checkbox_vars, selected_index,
                   hotkeys_var, refresh_interval, dialog, tpc, interval>>

(***************************************************************************)
(* The auto_refresh thread (lines 391-400), one step per shared access.    *)
(***************************************************************************)
ThreadCall(name, sched) ==
    Call(name, "thread", "bg", <<>>, "none", sched, NoStatus)

ThreadFrame ==
    UNCHANGED <<oswin, selected_index, hotkeys_var, refresh_interval,
                running, destroyed, dialog>>

\* while self.running:
auto_refresh_while ==
    /\ tpc = "while"
    /\ tpc' = IF running THEN "get" ELSE "exited"
    /\ lastCall' = ThreadCall("auto_refresh", FALSE)
    /\ UNCHANGED <<profiles, checkbox_vars, afterQueue, interval>>
    /\ ThreadFrame

\* try: interval = int(self.refresh_interval.get()) / except: interval = 3.
\* On a destroyed root get() raises and the except clause takes over.
auto_refresh_get ==
    /\ tpc = "get"
    /\ LET parsed == ParseInt(refresh_interval) IN
       interval' = IF ~destroyed /\ parsed.ok THEN parsed.value
                   ELSE DefaultInterval
    /\ tpc' = "sleep"
    /\ lastCall' = ThreadCall("auto_refresh", FALSE)
    /\ UNCHANGED <<profiles, checkbox_vars, afterQueue>>
    /\ ThreadFrame

\* time.sleep(interval), outside the try: a negative length raises
\* ValueError and ends the thread.
auto_refresh_sleep ==
    /\ tpc = "sleep"
    /\ tpc' = IF interval < 0 THEN "crashed" ELSE "if"
    /\ lastCall' = ThreadCall("auto_refresh", FALSE)
    /\ UNCHANGED <<profiles, checkbox_vars, afterQueue, interval>>
    /\ ThreadFrame

\* if self.running:
auto_refresh_if ==
    /\ tpc = "if"
    /\ tpc' = IF running THEN "after" ELSE "while"
    /\ lastCall' = ThreadCall("auto_refresh", FALSE)
    /\ UNCHANGED <<profiles, checkbox_vars, afterQueue, interval>>
    /\ ThreadFrame

\* A thread that calls self.refresh_profiles() itself.
RefreshOnCallingThread == RefreshBody /\ UNCHANGED afterQueue

\* self.root.after(0, self.refresh_profiles) on a live root.
ScheduleRefresh ==
    /\ afterQueue' = Append(afterQueue, 0)
    /\ UNCHANGED <<profiles, checkbox_vars>>

\* self.root.after(0, self.refresh_profiles).  On a destroyed root the call
\* queues nothing: it raises and ends the thread, or never returns.
auto_refresh_after ==
    /\ tpc = "after"
    /\ IF destroyed
       THEN /\ tpc' \in {"crashed", "blocked"}
            /\ UNCHANGED <<profiles, checkbox_vars, afterQueue>>
            /\ lastCall' = ThreadCall("root.after", FALSE)
       ELSE /\ Len(afterQueue) + Reserved < MaxPending
            /\ ScheduleRefresh
            /\ tpc' = "while"
            /\ lastCall' = ThreadCall("root.after", TRUE)
    /\ UNCHANGED interval
    /\ ThreadFrame

ThreadNext ==
    \/ auto_refresh_while
    \/ auto_refresh_get
    \/ auto_refresh_sleep
    \/ auto_refresh_if
    \/ auto_refresh_after

(***************************************************************************)
(* Initial state: after __init__ (create_ui, the thread started, the       *)
(* initial refresh_profiles on an empty desktop) and root.mainloop()       *)
(* entered.                                                                *)
(***************************************************************************)
Init ==
    /\ oswin = <<>>
    /\ profiles = <<>>
    /\ checkbox_vars = <<>>
    /\ selected_index = NoneIndex
    /\ hotkeys_var = TRUE
    /\ refresh_interval = <<"3">>
    /\ running = TRUE
    /\ destroyed = FALSE
    /\ afterQueue = <<>>
    /\ dialog = NoDialog
    /\ tpc = "while"
    /\ interval = DefaultInterval
    /\ lastCall = Call("refresh_profiles", "init", "ui", <<>>, "none", FALSE,
                       <<"Found", 0>>)

\* The desktop of Spec: three mimic windows, two of them with the same title,
\* of which at most MaxWindows exist at a time.
UiDesktop ==
    <<[title |-> TitleDC1,   pid |-> 1, visible |-> TRUE],
      [title |-> TitleDC1,   pid |-> 1, visible |-> TRUE],
      [title |-> TitleInbox, pid |-> 1, visible |-> TRUE]>>

OsNext ==
    \/ \E h \in 1..Len(UiDesktop) :
          /\ Len(oswin) < MaxWindows
          /\ CreateWindow(h, UiDesktop[h].title, UiDesktop[h].pid,
                          UiDesktop[h].visible)
    \/ \E k \in 1..MaxWindows : DestroyWindow(k)
    \/ \E k \in 1..MaxWindows : RaiseWindow(k)

Next ==
    \/ OsNext
    \/ refresh_profiles
    \/ \E k \in 1..MaxPending : after_callback(k)
    \/ \E i \in 0..(MaxWindows - 1) : checkbutton_click(i)
    \/ select_all
    \/ deselect_all
    \/ invert_selection
    \/ show_checked
    \/ minimize_checked
    \/ close_checked
    \/ \E answer \in BOOLEAN : close_checked_answer(answer)
    \/ show_all
    \/ minimize_all
    \/ close_all
    \/ \E answer \in BOOLEAN : close_all_answer(answer)
    \/ \E url \in Urls : open_url_checked(url)
    \/ showwarning_answer
    \/ \E answer \in BOOLEAN : open_url_answer(answer)

Spec == Init /\ [][Next]_vars

\* Navigation and hotkeys on the desktop of Spec.
HotkeyNext ==
    \/ OsNext
    \/ refresh_profiles
    \/ \E i \in 0..(MaxWindows - 1) : on_profile_click(i)
    \/ \E i \in 0..(MaxWindows - 1) : show_profile(i)
    \/ \E via \in {"button", "hotkey"} : nav_prev(via)
    \/ \E via \in {"button", "hotkey"} : nav_next(via)
    \/ nav_top
    \/ show_current
    \/ \E via \in {"mouse", "hotkey"} : toggle_hotkeys(via)

HotkeySpec == Init /\ [][HotkeyNext]_vars

\* The auto_refresh thread beside the event loop.
ThreadOsNext ==
    \/ \E h \in 1..MaxThreadWindows :
          CreateWindow(h, UiDesktop[h].title, UiDesktop[h].pid,
                       UiDesktop[h].visible)
    \/ \E k \in 1..MaxThreadWindows : DestroyWindow(k)

PollNext ==
    \/ ThreadOsNext
    \/ ThreadNext
    \/ \E k \in 1..MaxPending : after_callback(k)
    \/ \E text \in IntervalTexts : set_refresh_interval(text)
    \/ on_close

\* A callback is due: ENABLED <<after_callback(k)>>_vars for some k, written
\* out as a state predicate.
AfterDue == ~destroyed /\ afterQueue # <<>>

\* Weak fairness of the event loop running due callbacks:
\* WF_vars(\E k : after_callback(k)) with its ENABLED written out.
EventLoopFairness ==
    \/ []<>(~AfterDue)
    \/ []<><<\E k \in 1..MaxPending : after_callback(k)>>_vars

\* The scheduler runs the thread and the event loop runs due callbacks.
PollSpec ==
    /\ Init
    /\ [][PollNext]_vars
    /\ WF_vars(ThreadNext)
    /\ EventLoopFairness

\* The thread beside handlers that open a confirmation dialog.
DialogNext ==
    \/ PollNext
    \/ close_all
    \/ \E answer \in BOOLEAN : close_all_answer(answer)

DialogSpec == Init /\ [][DialogNext]_vars

\* The desktop of EnumSpec: ten windows, one for each way through
\* enum_callback, of which at most MaxEnumWindows exist at a time.
EnumDesktop ==
    <<[title |-> TitleDC1,   pid |-> 1, visible |-> TRUE],   \* mimic
      [title |-> TitleInbox, pid |-> 1, visible |-> TRUE],   \* mimic, no indicator
      [title |-> TitleDC1,   pid |-> 2, visible |-> TRUE],   \* chrome, indicator
      [title |-> TitleInbox, pid |-> 2, visible |-> TRUE],   \* chrome, no indicator
      [title |-> TitleLower, pid |-> 2, visible |-> TRUE],   \* chrome, "dc1"
      [title |-> TitleDC1,   pid |-> 1, visible |-> FALSE],  \* hidden
      [title |-> TitleEmpty, pid |-> 1, visible |-> TRUE],   \* no title
      [title |-> TitleDC1,   pid |-> 3, visible |-> TRUE],   \* OpenProcess NULL
      [title |-> TitleDC1,   pid |-> 4, visible |-> TRUE],   \* query raises
      [title |-> TitleDC1,   pid |-> 5, visible |-> TRUE]>>  \* explorer.exe

EnumNext ==
    \/ \E h \in 1..Len(EnumDesktop) :
          /\ Len(oswin) < MaxEnumWindows
          /\ CreateWindow(h, EnumDesktop[h].title, EnumDesktop[h].pid,
                          EnumDesktop[h].visible)
    \/ \E k \in 1..MaxEnumWindows : DestroyWindow(k)
    \/ refresh_profiles

EnumSpec == Init /\ [][EnumNext]_vars

(***************************************************************************)
(* Claims about the handlers, checked under Spec.                          *)
(***************************************************************************)
Count(ops, op) == Cardinality({k \in 1..Len(ops) : ops[k] = op})

ClosePosted(call) ==
    \E k \in 1..Len(call.ops) : call.ops[k][1] = "PostMessageW"

CloseHandlers == {"close_checked", "close_all"}

\* C1: WM_CLOSE is posted only by close_checked and close_all, and only when
\* their dialog was answered yes; when the answer is no, or no dialog was
\* shown, the handler posts no close request and schedules no refresh.
C1_CloseOnlyAfterYes ==
    [][LET call == lastCall' IN
       /\ ClosePosted(call) =>
             call.name \in CloseHandlers /\ call.answer = "yes"
       /\ (call.name \in CloseHandlers /\ call.answer # "yes") =>
             ~ClosePosted(call) /\ afterQueue' = afterQueue]_vars

\* Close Selected was asked with a row checked and the user answered no.
C1_Witness ==
    /\ lastCall.name = "close_checked"
    /\ lastCall.answer = "no"
    /\ \E i \in 1..Len(checkbox_vars) : checkbox_vars[i]

\* The windows of self.profiles whose checkbox is checked.
SelectedHwnds ==
    {profiles[i].hwnd : i \in {j \in 1..Len(profiles) : checkbox_vars[j]}}

ListedHwnds == {profiles[i].hwnd : i \in 1..Len(profiles)}

\* Each operation of expected issued once, and nothing else issued.
IssuedExactly(ops, expected) ==
    /\ Len(ops) = Cardinality(expected)
    /\ \A op \in expected : Count(ops, op) = 1

ShowOpsFor(hwnds) ==
    {ShowWindow(h, SW_RESTORE) : h \in hwnds}
       \cup {SetForegroundWindow(h) : h \in hwnds}
MinimizeOpsFor(hwnds) == {ShowWindow(h, SW_MINIMIZE) : h \in hwnds}
CloseOpsFor(hwnds) == {PostMessageW(h, WM_CLOSE) : h \in hwnds}

NothingSelected(call) ==
    /\ call.ops = <<>>
    /\ call.status = <<"No profiles selected", 0>>
    /\ dialog' = NoDialog

\* C7: Show Selected, Minimize Selected and Close Selected issue their OS
\* operation once for every window that was checked when the button was
\* pressed and for no other window; with nothing checked they issue none,
\* open no dialog and set the status to "No profiles selected".
C7_ActOnExactlyTheSelected ==
    [][LET call == lastCall' IN
       /\ call.name = "show_checked" =>
             IF SelectedHwnds = {} THEN NothingSelected(call)
             ELSE IssuedExactly(call.ops, ShowOpsFor(SelectedHwnds))
       /\ call.name = "minimize_checked" =>
             IF SelectedHwnds = {} THEN NothingSelected(call)
             ELSE IssuedExactly(call.ops, MinimizeOpsFor(SelectedHwnds))
       /\ (call.name = "close_checked" /\ call.via = "button") =>
             IF SelectedHwnds = {} THEN NothingSelected(call)
             ELSE /\ call.ops = <<>>
                  /\ dialog'.handler = "close_checked"
                  /\ Len(dialog'.checked) = Cardinality(SelectedHwnds)
                  /\ {dialog'.checked[i].hwnd :
                         i \in 1..Len(dialog'.checked)} = SelectedHwnds
       /\ (call.name = "close_checked" /\ call.via = "dialog") =>
             IF call.answer = "yes"
             THEN IssuedExactly(call.ops,
                                CloseOpsFor({dialog.checked[i].hwnd :
                                                i \in 1..Len(dialog.checked)}))
             ELSE call.ops = <<>>]_vars

\* Close Selected closed one of two listed windows.
C7_Witness ==
    /\ lastCall.name = "close_checked"
    /\ lastCall.answer = "yes"
    /\ Len(lastCall.ops) = 1
    /\ Len(profiles) = 2
    /\ lastCall.ops[1][2] \in ListedHwnds

Refreshed == lastCall.name = "refresh_profiles"

RefreshStep == lastCall'.name = "refresh_profiles"

\* C9: across refresh_profiles a window still listed under the same title
\* keeps its checkbox, checked or unchecked, whatever its new row; a window
\* whose title was not listed before starts unchecked.
C9_CheckboxPreservedPerWindow ==
    [][RefreshStep =>
          /\ \A i \in 1..Len(profiles) : \A j \in 1..Len(profiles') :
                (/\ profiles'[j].hwnd = profiles[i].hwnd
                 /\ profiles'[j].title = profiles[i].title)
                   => checkbox_vars'[j] = checkbox_vars[i]
          /\ \A j \in 1..Len(profiles') :
                (\A i \in 1..Len(profiles) :
                    profiles[i].title # profiles'[j].title)
                   => ~checkbox_vars'[j]]_vars

(***************************************************************************)
(* Claims about the hotkeys, checked under HotkeySpec.                     *)
(***************************************************************************)
\* C8: while hotkeys are off, Ctrl+Shift+Left, Ctrl+Shift+Right and
\* Ctrl+Shift+Up navigate nowhere and show no window.
C8_HotkeysOffDoNothing ==
    [][(/\ ~hotkeys_var
        /\ lastCall'.via = "hotkey"
        /\ lastCall'.name \in {"nav_prev", "nav_next", "show_current"})
          => /\ lastCall'.ops = <<>>
             /\ selected_index' = selected_index]_vars

(***************************************************************************)
(* Claims about the thread and the event loop.                             *)
(***************************************************************************)
ListChanged == profiles' # profiles \/ checkbox_vars' # checkbox_vars

\* C5: refresh_profiles runs on the UI thread only, the background thread
\* leaves self.profiles and self.checkbox_vars alone, and no refresh runs
\* while a user-action handler is in the middle of its body.
C5_NoRefreshInsideAHandler ==
    [][/\ ListChanged => lastCall'.thread = "ui"
       /\ lastCall'.thread = "bg" => ~RefreshStep
       /\ RefreshStep => dialog = NoDialog]_vars

\* C5, as amended: refresh_profiles runs on the UI thread only and the
\* background thread leaves self.profiles and self.checkbox_vars alone; a
\* refresh can run inside a handler, but only while the handler waits in
\* its modal messagebox, and the refresh leaves that dialog open.
C5_RefreshOnlyOnUiThread ==
    [][/\ ListChanged => lastCall'.thread = "ui"
       /\ lastCall'.thread = "bg" => ~RefreshStep
       /\ (RefreshStep /\ dialog # NoDialog) =>
             /\ lastCall'.via = "after"
             /\ dialog.handler \in {"close_checked", "close_all",
                                    "open_url_checked", "showwarning"}
             /\ dialog' = dialog]_vars

\* A refresh scheduled with root.after ran, and changed the list, while
\* Close All waited for its answer.
C5_Witness ==
    /\ Refreshed
    /\ lastCall.via = "after"
    /\ dialog.handler = "close_all"
    /\ profiles = <<>>

\* C6: whatever the refresh-interval field holds, while self.running is true
\* the auto_refresh loop schedules refresh_profiles again and again.
C6_KeepsScheduling ==
    []<>(~running \/ lastCall.name = "root.after")

\* C10: once on_close has destroyed the root, the thread makes no
\* root.after call on it, and the loop ends.
C10_NoSchedulingOnceDestroyed ==
    /\ [][destroyed => lastCall'.name # "root.after"]_vars
    /\ (destroyed ~> tpc \in {"exited", "crashed"})

(***************************************************************************)
(* Claims about the enumeration, checked under EnumSpec.                   *)
(***************************************************************************)
\* A window the program is meant to list: visible, with a title, its process
\* openable, and its executable's name holding "mimic", or "chrome" with an
\* indicator in the title.
Detected(w) ==
    /\ w.visible
    /\ w.title # <<>>
    /\ ProcessTable[w.pid].open = "ok"
    /\ LET exe == ExeName(ProcessTable[w.pid].path) IN
       \/ Contains(<<"m","i","m","i","c">>, exe)
       \/ /\ Contains(<<"c","h","r","o","m","e">>, exe)
          /\ \E k \in 1..Len(indicators) : Contains(indicators[k], w.title)

DetectedWindows == SelectSeq(oswin, Detected)

\* C2: after every refresh_profiles no two records of self.profiles have the
\* same owning process id.
C2_NoTwoRecordsShareAPid ==
    Refreshed =>
        \A i, j \in 1..Len(profiles) :
            i # j => profiles[i].pid # profiles[j].pid

\* C2, as amended: after every refresh_profiles no two records of
\* self.profiles have the same window handle; records are not merged by
\* process id, so a process with several matching windows has several.
C2_OneRecordPerWindow ==
    Refreshed =>
        \A i, j \in 1..Len(profiles) :
            i # j => profiles[i].hwnd # profiles[j].hwnd

\* A refresh listed two windows of one process.
C2_Witness ==
    /\ Refreshed
    /\ Len(profiles) = 2
    /\ profiles[1].pid = profiles[2].pid
    /\ profiles[1].hwnd # profiles[2].hwnd

\* C3: after refresh_profiles, self.profiles is exactly the sequence of the
\* currently detected windows, in enumeration order; nothing of an earlier
\* poll survives.
C3_RebuiltFromScratch ==
    Refreshed =>
        /\ Len(profiles) = Len(DetectedWindows)
        /\ \A i \in 1..Len(profiles) :
              /\ profiles[i].hwnd = DetectedWindows[i].hwnd
              /\ profiles[i].title = DetectedWindows[i].title
              /\ profiles[i].pid = DetectedWindows[i].pid

\* A refresh that skips the first window enumerated and lists the second.
C3_Witness ==
    /\ Refreshed
    /\ Len(profiles) = 1
    /\ Len(oswin) = 2
    /\ profiles[1].hwnd = oswin[2].hwnd

ProcessFails(w) == ProcessTable[w.pid].open # "ok"

\* C4: a window whose process cannot be opened or queried is left out, every
\* window enumerated after it is still examined, and refresh_profiles ends
\* normally: the status line shows the count and no dialog is open.
C4_FailuresSkipped ==
    Refreshed =>
        /\ \A k \in 1..Len(oswin) :
              ProcessFails(oswin[k]) =>
                 /\ \A i \in 1..Len(profiles) :
                       profiles[i].hwnd # oswin[k].hwnd
                 /\ \A m \in (k + 1)..Len(oswin) :
                       Detected(oswin[m]) =>
                          \E i \in 1..Len(profiles) :
                             profiles[i].hwnd = oswin[m].hwnd
        /\ lastCall.status = <<"Found", Len(profiles)>>
        /\ dialog = NoDialog

\* The first window enumerated fails to be queried; the one after it is
\* listed.
C4_Witness ==
    /\ Refreshed
    /\ Len(oswin) = 2
    /\ ProcessFails(oswin[1]) /\ oswin[1].visible /\ oswin[1].title # <<>>
    /\ Len(profiles) = 1
    /\ profiles[1].hwnd = oswin[2].hwnd

====
